---- MODULE Spec2Model ----
(***************************************************************************)
(* NeuroFlow EEG backend (src/backend/main.py): the filter bank, the       *)
(* cleaning pipeline clean_eeg, POST /clean and POST /ica.                 *)
(*                                                                         *)
(* A signal is a channel x sample array.  Its numeric content is kept      *)
(* symbolically: `ops` is the sequence of transformations that have been   *)
(* applied to the values, so "returned unmodified" is equality of signals  *)
(* and "filtered" is a longer `ops`.  Frequencies are integers in tenths   *)
(* of a hertz (0.5 Hz = 5), sampling rates are integers in hertz.          *)
(***************************************************************************)
EXTENDS Integers, Sequences, FiniteSets, TLC

VARIABLES
    pc,        \* position of the request being served
    req,       \* the call / payload being served
    filtered,  \* clean_eeg's local `filtered`
    calls,     \* the stage functions invoked so far, in order
    skipped,   \* the stages that returned their input because it was too short
    failed,    \* the stage whose call raised ("" when none)
    warnings,  \* clean_eeg_endpoint's local `warnings`
    ica_obj,   \* clean_eeg's local `ica_obj`
    ret,       \* the value returned by the function called
    resp,      \* the HTTP response
    table_a,   \* compare_multi_endpoint's local `table_a`
    table_b,   \* compare_multi_endpoint's local `table_b`
    todo,      \* the subjects compare_multi_endpoint's loop has still to visit
    lost,      \* the subjects whose iteration ended in `except Exception: continue`
    uploaded,  \* the tmp_path values POST /upload has returned
    opened     \* the paths whose file parse_eeg has read

vars == <<pc, req, filtered, calls, skipped, failed, warnings, ica_obj, ret, resp,
          table_a, table_b, todo, lost, uploaded, opened>>

\* the locals of the cleaning pipeline, and those of the comparison loop
cleanVars == <<filtered, calls, skipped, failed, warnings, ica_obj>>
cmpVars == <<table_a, table_b, todo, lost>>
\* what the server's temporary directory has seen
fileVars == <<uploaded, opened>>

----------------------------------------------------------------------------
(* Bounds of the model *)

MaxSamples == 28
MaxChan == 3
MaxComp == 4

----------------------------------------------------------------------------
(* Values *)

\* Python's None for an absent frequency / n_components argument
None == -1

Min(a, b) == IF a <= b THEN a ELSE b
Max(a, b) == IF a >= b THEN a ELSE b

Signal(nchan, nsamples) ==
    [type |-> "ndarray", nchan |-> nchan, nsamples |-> nsamples, ops |-> <<>>]
NoSignal == Signal(0, 0)

\* the result of a call: a returned value or an exception
Return(v) == [raised |-> FALSE, out |-> v]
Raise == [raised |-> TRUE, out |-> NoSignal]

\* scipy.signal.filtfilt(b, a, data, axis=1): same shape, new values
filtfilt(data, name) == [data EXCEPT !.ops = Append(@, name)]

\* default order of the Butterworth designs
Order == 4

\* len(a) = len(b) of butter(order, ..., btype): 2*order+1 taps for a band, order+1 otherwise
ButterLenBandAlways(order, btype) == 2 * order + 1
ButterLen(order, btype) == IF btype = "band" THEN 2 * order + 1 ELSE order + 1

\* len(a) = len(b) of iirnotch: a second-order section
NotchLen == 3

\* butter rejects a normalised critical frequency outside (0, 1): cutoff / (0.5 * fs)
ButterAcceptsQuarter(cutoff, fs) == 0 < 4 * cutoff /\ 4 * cutoff < 10 * fs
ButterAccepts(cutoff, fs) == 0 < 2 * cutoff /\ 2 * cutoff < 10 * fs

\* iirnotch rejects w0 outside [0, 1]
NotchAccepts(freq, fs) == 0 <= 2 * freq /\ 2 * freq <= 10 * fs

\* the guard `data.shape[1] <= padlen`
TooShortStrict(data, padlen) == data.nsamples < padlen
TooShort(data, padlen) == data.nsamples <= padlen

----------------------------------------------------------------------------
(* Filter bank *)

bandpass_filter(data, lowcut, highcut, fs) ==
    IF fs = 0 THEN Raise                                   \* lowcut / nyq
    ELSE IF ~(ButterAccepts(lowcut, fs) /\ ButterAccepts(highcut, fs)) THEN Raise
    ELSE LET padlen == 3 * Max(ButterLen(Order, "band"), ButterLen(Order, "band"))
         IN  IF TooShort(data, padlen) THEN Return(data)
             ELSE Return(filtfilt(data, "bandpass"))

lowpass_filter(data, cutoff, fs) ==
    IF fs = 0 THEN Raise
    ELSE IF ~ButterAccepts(cutoff, fs) THEN Raise
    ELSE LET padlen == 3 * Max(ButterLen(Order, "low"), ButterLen(Order, "low"))
         IN  IF TooShort(data, padlen) THEN Return(data)
             ELSE Return(filtfilt(data, "lowpass"))

highpass_filter(data, cutoff, fs) ==
    IF fs = 0 THEN Raise
    ELSE IF ~ButterAccepts(cutoff, fs) THEN Raise
    ELSE LET padlen == 3 * Max(ButterLen(Order, "high"), ButterLen(Order, "high"))
         IN  IF TooShort(data, padlen) THEN Return(data)
             ELSE Return(filtfilt(data, "highpass"))

notch_filter(data, notch_freq, fs) ==
    IF fs = 0 THEN Raise
    ELSE IF ~NotchAccepts(notch_freq, fs) THEN Raise
    ELSE LET padlen == 3 * Max(NotchLen, NotchLen)
         IN  IF TooShort(data, padlen) THEN Return(data)
             ELSE Return(filtfilt(data, "notch"))

baseline_correction(data) == [data EXCEPT !.ops = Append(@, "baseline")]

\* one filter of the bank, by name
ApplyFilter(kind, data, lo, hi, fs) ==
    CASE kind = "bandpass" -> bandpass_filter(data, lo, hi, fs)
      [] kind = "highpass" -> highpass_filter(data, lo, fs)
      [] kind = "lowpass"  -> lowpass_filter(data, lo, fs)
      [] kind = "notch"    -> notch_filter(data, lo, fs)

----------------------------------------------------------------------------
(* Inputs *)

FsSet == {0, 160}
CutoffSet == {0, 5, 10, 450, 800}
BandSet == {<<10, 450>>, <<0, 450>>, <<10, 1000>>}
NotchSet == {500, 600, 900}
FilterKinds == {"bandpass", "highpass", "lowpass", "notch"}

IcaNone == [fitted |-> FALSE, n |-> 0, exclude |-> {}]
NoResp == [status |-> 0]
Idle == [op |-> "none"]

Init ==
    /\ pc = "idle"
    /\ req = Idle
    /\ filtered = NoSignal
    /\ calls = <<>>
    /\ skipped = {}
    /\ failed = ""
    /\ warnings = <<>>
    /\ ica_obj = IcaNone
    /\ ret = Return(NoSignal)
    /\ resp = NoResp
    /\ table_a = <<>>
    /\ table_b = <<>>
    /\ todo = <<>>
    /\ lost = {}
    /\ uploaded = {}
    /\ opened = {}

----------------------------------------------------------------------------
(* A direct call of one filter function (test_filters.py) *)

FilterArgs(kind) ==
    CASE kind = "bandpass" -> BandSet
      [] kind = "notch"    -> {<<f, None>> : f \in NotchSet}
      [] OTHER             -> {<<f, None>> : f \in CutoffSet}

FilterCall ==
    /\ UNCHANGED <<cmpVars, fileVars>>
    /\ pc = "idle"
    /\ \E kind \in FilterKinds, nchan \in 1..MaxChan, n \in 0..MaxSamples, fs \in FsSet \ {0} :
         \E args \in FilterArgs(kind) :
            /\ req' = [op |-> "filter", kind |-> kind, data |-> Signal(nchan, n),
                       lo |-> args[1], hi |-> args[2], fs |-> fs]
            /\ ret' = ApplyFilter(kind, Signal(nchan, n), args[1], args[2], fs)
    /\ pc' = "done"
    /\ UNCHANGED <<filtered, calls, skipped, failed, warnings, ica_obj, resp>>

----------------------------------------------------------------------------
(* Artifact removal *)

Min3(a, b, c) == Min(a, Min(b, c))

\* int(0.95 * x) for x >= 0
Int095(x) == (95 * x) \div 100

\* n_comp as fitted, without the clamp to the signal's dimensions
NCompUnclamped(n_components, nchan, nsamples) ==
    IF n_components = None \/ n_components = 0
    THEN Min(nchan, Int095(Min(nchan, nsamples \div 3)))
    ELSE n_components

\* n_comp = n_components or min(nchan, int(0.95 * min(nchan, nsamples // 3)))
\* n_comp = min(n_comp, nchan - 1, nsamples // 3)
NComp(n_components, nchan, nsamples) ==
    LET n_comp == IF n_components = None \/ n_components = 0
                  THEN Min(nchan, Int095(Min(nchan, nsamples \div 3)))
                  ELSE n_components
    IN  Min3(n_comp, nchan - 1, nsamples \div 3)

\* where a library call inside apply_ica raises: nowhere, while building and
\* high-passing the Raw ("prep"), in ICA(...).fit, or in ica.apply
IcaFailures == {"none", "prep", "fit", "apply"}

\* what find_bads_eog reports; its own exception is swallowed and leaves
\* `exclude` as it was, like an empty report
EogReports(n_comp) == {{}, {0}, {n_comp - 1}}

IcaRaise(fit_n) ==
    [raised |-> TRUE, out |-> NoSignal, excluded |-> {}, ica |-> IcaNone, fit_n |-> fit_n]

\* apply_ica(data, fs, channel_names, n_components, exclude); fit_n is the
\* number of components ICA was fitted with (0: no decomposition)
apply_ica(data, n_components, exclude, fail, eog) ==
    IF fail = "prep" THEN IcaRaise(0)
    ELSE LET n_comp == NComp(n_components, data.nchan, data.nsamples) IN
         IF n_comp < 2
         THEN [raised |-> FALSE, out |-> data, excluded |-> {}, ica |-> IcaNone, fit_n |-> 0]
         ELSE IF fail \in {"fit", "apply"} THEN IcaRaise(n_comp)
         ELSE LET excl == IF eog # {} THEN exclude \cup eog ELSE exclude
              IN  [raised |-> FALSE,
                   out |-> [data EXCEPT !.ops = @ \o <<"ica_highpass", "ica_apply">>],
                   excluded |-> excl,
                   ica |-> [fitted |-> TRUE, n |-> n_comp, exclude |-> excl],
                   fit_n |-> n_comp]

----------------------------------------------------------------------------
(* clean_eeg, called by POST /clean or directly (test_filters.py) *)

CleanBandSet == {<<None, None>>, <<10, None>>, <<None, 450>>, <<10, 450>>}
CleanHighSet == {None, 5}
CleanLowSet == {None, 450, 800}
CleanNotchSet == {None, 500}
ExcludeSet == {{}, {0}}

\* the payloads that reach clean_eeg; ica_exclude is read only when ica_enabled
Payloads(caller, ranks) ==
    {p \in [op : {"clean"}, caller : {caller}, rank : ranks,
            nchan : 1..MaxChan, nsamples : 0..MaxSamples, fs : FsSet \ {0},
            bandpass : CleanBandSet, highpass_freq : CleanHighSet,
            lowpass_freq : CleanLowSet, notch_freq : CleanNotchSet,
            ica_enabled : BOOLEAN, ica_exclude : ExcludeSet] :
        /\ p.rank = 1 => p.nchan = 1
        /\ ~p.ica_enabled => p.ica_exclude = {}}

\* the payloads POST /clean turns down before clean_eeg: a 3-D array, fs = 0
RejectedPayloads ==
    {p \in [op : {"clean"}, caller : {"endpoint"}, rank : 1..3,
            nchan : 1..MaxChan, nsamples : 0..MaxSamples, fs : FsSet,
            bandpass : {<<10, 450>>}, highpass_freq : {None},
            lowpass_freq : {None}, notch_freq : {500},
            ica_enabled : {FALSE}, ica_exclude : {{}}] :
        /\ p.rank = 1 => p.nchan = 1
        /\ p.rank = 3 \/ p.fs = 0}

\* the UI presets and the payload make_payload builds for each (test_filter_combinations.py)
FILTER_PRESETS ==
    [research      |-> [bandpass |-> <<10, 450>>, highpass_freq |-> 5,  lowpass_freq |-> 450],
     clinical      |-> [bandpass |-> <<5, 500>>,  highpass_freq |-> 1,  lowpass_freq |-> 700],
     neurofeedback |-> [bandpass |-> <<40, 300>>, highpass_freq |-> 20, lowpass_freq |-> 300],
     sleep         |-> [bandpass |-> <<1, 300>>,  highpass_freq |-> 1,  lowpass_freq |-> 300],
     teaching      |-> [bandpass |-> <<10, 450>>, highpass_freq |-> 5,  lowpass_freq |-> 450]]
NOTCH_OPTIONS == {500, 600}
PresetSamples == 3000
PresetPayloads ==
    {[op |-> "clean", caller |-> "endpoint", rank |-> 2, preset |-> name,
      nchan |-> 2, nsamples |-> PresetSamples, fs |-> 160,
      bandpass |-> FILTER_PRESETS[name].bandpass,
      highpass_freq |-> FILTER_PRESETS[name].highpass_freq,
      lowpass_freq |-> FILTER_PRESETS[name].lowpass_freq,
      notch_freq |-> notch, ica_enabled |-> FALSE, ica_exclude |-> {}] :
        name \in DOMAIN FILTER_PRESETS, notch \in NOTCH_OPTIONS}

\* parsed.get(key, default)
Get(p, key, default) == IF key \in DOMAIN p THEN p[key] ELSE default

\* payloads that carry metadata next to the data: a channels count, a list of
\* channel names (its length is kept) or both
MetadataPayloads ==
    LET base(nchan) == [op |-> "clean", caller |-> "endpoint", rank |-> 2,
                        nchan |-> nchan, nsamples |-> MaxSamples, fs |-> 160,
                        bandpass |-> <<None, None>>, highpass_freq |-> None,
                        lowpass_freq |-> None, notch_freq |-> 500,
                        ica_enabled |-> FALSE, ica_exclude |-> {}]
    IN  UNION {{base(nchan) @@ [channels |-> c],
                base(nchan) @@ [channel_names |-> n],
                base(nchan) @@ [channels |-> c, channel_names |-> n]} :
                  nchan \in 1..2, c \in 1..MaxChan, n \in 0..MaxChan}

\* the signal a payload carries: a 1-D array is reshaped to one row
PayloadData(p) == IF p.rank = 1 THEN Signal(1, p.nsamples) ELSE Signal(p.nchan, p.nsamples)

Error(status) ==
    [status |-> status, cleaned |-> NoSignal, warnings |-> <<>>,
     has_ica_excluded |-> FALSE, ica_excluded |-> {}, topomap |-> "none"]

\* padlen = 27  # Conservative default for 4th order Butterworth
WarnPadlenLowpass == 3 * ButterLen(Order, "low")
WarnPadlen == 27

\* the sequential order of clean_eeg's statements
NextStageSwapped(s) ==
    CASE s = "bandpass" -> "lowpass"
      [] s = "lowpass"  -> "highpass"
      [] s = "highpass" -> "notch"
      [] s = "notch"    -> "baseline"
      [] s = "baseline" -> "ica"
      [] s = "ica"      -> "return"
NextStageBaselineEarly(s) ==
    CASE s = "bandpass" -> "highpass"
      [] s = "highpass" -> "lowpass"
      [] s = "lowpass"  -> "baseline"
      [] s = "baseline" -> "notch"
      [] s = "notch"    -> "ica"
      [] s = "ica"      -> "return"
NextStage(s) ==
    CASE s = "bandpass" -> "highpass"
      [] s = "highpass" -> "lowpass"
      [] s = "lowpass"  -> "notch"
      [] s = "notch"    -> "baseline"
      [] s = "baseline" -> "ica"
      [] s = "ica"      -> "return"

\* the `if ... is not None` in front of each filter call
StageEnabled(s, p) ==
    CASE s = "bandpass" -> p.bandpass[1] # None /\ p.bandpass[2] # None
      [] s = "highpass" -> p.highpass_freq # None
      [] s = "lowpass"  -> p.lowpass_freq # None
      [] s = "notch"    -> p.notch_freq # None

StageCall(s, p, data) ==
    CASE s = "bandpass" -> bandpass_filter(data, p.bandpass[1], p.bandpass[2], p.fs)
      [] s = "highpass" -> highpass_filter(data, p.highpass_freq, p.fs)
      [] s = "lowpass"  -> lowpass_filter(data, p.lowpass_freq, p.fs)
      [] s = "notch"    -> notch_filter(data, p.notch_freq, p.fs)

\* POST /clean up to the call of clean_eeg: rank check, metadata, warnings
CleanRequest ==
    /\ UNCHANGED <<cmpVars, fileVars>>
    /\ pc = "idle"
    /\ \E p \in Payloads("endpoint", 1..2) \cup RejectedPayloads \cup PresetPayloads
                  \cup MetadataPayloads :
         /\ req' = p
         /\ IF p.rank = 3
            THEN /\ resp' = Error(400)
                 /\ pc' = "done"
                 /\ UNCHANGED <<filtered, warnings>>
            ELSE IF p.fs = 0                      \* data.shape[1] // fs
            THEN /\ resp' = Error(500)
                 /\ pc' = "done"
                 /\ UNCHANGED <<filtered, warnings>>
            ELSE /\ warnings' = IF PayloadData(p).nsamples <= WarnPadlen
                                THEN <<[text |-> "Filtering skipped",
                                        length |-> PayloadData(p).nsamples,
                                        padlen |-> WarnPadlen]>>
                                ELSE <<>>
                 /\ filtered' = PayloadData(p)    \* filtered = data.copy()
                 /\ pc' = "bandpass"
                 /\ UNCHANGED resp
    /\ UNCHANGED <<calls, skipped, failed, ica_obj, ret>>

\* clean_eeg(data, fs, ...) called directly
CleanCall ==
    /\ UNCHANGED <<cmpVars, fileVars>>
    /\ pc = "idle"
    /\ \E p \in Payloads("direct", {2}) :
         /\ p.nchan = MaxChan
         /\ req' = p
         /\ filtered' = PayloadData(p)
    /\ pc' = "bandpass"
    /\ UNCHANGED <<calls, skipped, failed, warnings, ica_obj, ret, resp>>

\* an exception leaves clean_eeg: the endpoint answers 500, a direct caller gets it
Propagate(s) ==
    /\ failed' = s
    /\ pc' = "done"
    /\ IF req.caller = "endpoint"
       THEN resp' = Error(500) /\ UNCHANGED ret
       ELSE ret' = Raise /\ UNCHANGED resp

Stage(s) ==
    /\ UNCHANGED <<cmpVars, fileVars>>
    /\ pc = s
    /\ req.op = "clean"
    /\ IF StageEnabled(s, req)
       THEN LET r == StageCall(s, req, filtered) IN
            /\ calls' = Append(calls, s)
            /\ IF r.raised
               THEN /\ Propagate(s)
                    /\ UNCHANGED <<filtered, skipped>>
               ELSE /\ filtered' = r.out
                    /\ skipped' = IF r.out = filtered THEN skipped \cup {s} ELSE skipped
                    /\ pc' = NextStage(s)
                    /\ UNCHANGED <<failed, ret, resp>>
       ELSE /\ pc' = NextStage(s)
            /\ UNCHANGED <<filtered, calls, skipped, failed, ret, resp>>
    /\ UNCHANGED <<req, warnings, ica_obj>>

StageBandpass == Stage("bandpass")
StageHighpass == Stage("highpass")
StageLowpass == Stage("lowpass")
StageNotch == Stage("notch")

StageBaseline ==
    /\ UNCHANGED <<cmpVars, fileVars>>
    /\ pc = "baseline"
    /\ filtered' = baseline_correction(filtered)
    /\ calls' = Append(calls, "baseline")
    /\ pc' = NextStage("baseline")
    /\ UNCHANGED <<req, skipped, failed, warnings, ica_obj, ret, resp>>

\* try: filtered, _, ica_obj = apply_ica(...)  except Exception: ica_obj = None
IcaStageNoTry(f, r) == [filtered |-> r.out, ica_obj |-> r.ica]
IcaStageOutcome(f, r) ==
    IF r.raised THEN [filtered |-> f, ica_obj |-> IcaNone]
    ELSE [filtered |-> r.out, ica_obj |-> r.ica]

StageIca ==
    /\ UNCHANGED <<cmpVars, fileVars>>
    /\ pc = "ica"
    /\ req.op = "clean"
    /\ IF req.ica_enabled
       THEN \E fail \in IcaFailures, eog \in EogReports(NComp(None, filtered.nchan, filtered.nsamples)) :
              LET r == apply_ica(filtered, None, req.ica_exclude, fail, eog)
                  o == IcaStageOutcome(filtered, r)
              IN  /\ filtered' = o.filtered
                  /\ ica_obj' = o.ica_obj
                  /\ calls' = Append(calls, "ica")
                  /\ failed' = IF r.raised THEN "ica" ELSE failed
       ELSE UNCHANGED <<filtered, ica_obj, calls, failed>>
    /\ pc' = NextStage("ica")
    /\ UNCHANGED <<req, skipped, warnings, ret, resp>>

\* return filtered, ica_obj
CleanReturnValue(f, o) == [type |-> "tuple", items |-> <<f, o>>]

CleanReturn ==
    /\ UNCHANGED <<cmpVars, fileVars>>
    /\ pc = "return"
    /\ ret' = Return(CleanReturnValue(filtered, ica_obj))
    /\ pc' = IF req.caller = "endpoint" THEN "respond" ELSE "done"
    /\ UNCHANGED <<req, filtered, calls, skipped, failed, warnings, ica_obj, resp>>

\* POST /clean after clean_eeg: cleaned, ica_obj = clean_eeg(...), the response,
\* and the topomap block, whose plotting may fail
CleanRespond ==
    /\ UNCHANGED <<cmpVars, fileVars>>
    /\ pc = "respond"
    /\ \E plot_ok \in BOOLEAN :
         LET cleaned == ret.out.items[1]
             ica == ret.out.items[2]
             data == PayloadData(req)
             channels == Get(req, "channels", data.nchan)
             channel_names == Get(req, "channel_names", channels)
         IN  resp' = [status |-> 200, cleaned |-> cleaned, warnings |-> warnings,
                      channels |-> channels,
                      data_shape |-> <<channels, data.nsamples>>,
                      channel_names |-> channel_names,
                      has_ica_excluded |-> ica.fitted,
                      ica_excluded |-> IF ica.fitted THEN ica.exclude ELSE {},
                      topomap |-> IF ~ica.fitted THEN "none"
                                  ELSE IF plot_ok THEN "image" ELSE "error"]
    /\ pc' = "done"
    /\ UNCHANGED <<req, filtered, calls, skipped, failed, warnings, ica_obj, ret>>

----------------------------------------------------------------------------
(* POST /upload, POST /parse, POST /clean with a tmp_path *)

\* os.path.splitext(name)[1].lower() of the names and paths the clients send
Ext(name) ==
    CASE name \in {"rec.EDF", "/tmp/u1.edf"} -> ".edf"
      [] name \in {"rec.csv", "/tmp/u2.csv", "/data/other.csv"} -> ".csv"
      [] name \in {"rec.mat", "/tmp/u3.mat"} -> ".mat"
      [] name \in {"notes.txt", "/tmp/n.txt"} -> ".txt"
      [] OTHER                                -> ""
UploadNames == {"rec.EDF", "rec.csv", "rec.mat", "notes.txt", "README"}
\* tmp.name of NamedTemporaryFile(delete=False, suffix=ext)
UploadPath(ext) ==
    CASE ext = ".edf" -> "/tmp/u1.edf"
      [] ext = ".csv" -> "/tmp/u2.csv"
      [] ext = ".mat" -> "/tmp/u3.mat"
\* the tmp_path values the clients send: none, one an upload returns, two of
\* files that no upload wrote
TmpPaths == {"", "/tmp/u2.csv", "/tmp/n.txt", "/data/other.csv"}

\* what is stored at a path: nothing readable, or a channels x samples table
Files == {[readable |-> FALSE, nchan |-> 0, nsamples |-> 0],
          [readable |-> TRUE, nchan |-> 2, nsamples |-> MaxSamples]}

HTTPException(status) == [raised |-> TRUE, status |-> status]

\* parse_eeg(payload): the response, or the HTTPException it raises
parse_eeg(tmp_path, file) ==
    IF tmp_path = "" THEN HTTPException(400)                    \* Missing tmp_path
    ELSE IF Ext(tmp_path) \notin {".edf", ".csv", ".mat"} \/ ~file.readable
    THEN HTTPException(500)                                     \* except Exception as e
    ELSE [raised |-> FALSE, status |-> 200,
          channels |-> file.nchan, sampling_rate |-> 256,
          data_shape |-> <<file.nchan, file.nsamples>>]

\* the paths whose file has been read once parse_eeg(payload) has run: the
\* reader of the path's format is handed tmp_path as the client sent it
OpenedAfter(tmp_path, file) ==
    IF parse_eeg(tmp_path, file).raised THEN opened ELSE opened \cup {tmp_path}

UploadRequest ==
    /\ pc = "idle"
    /\ \E filename \in UploadNames :
         /\ req' = [op |-> "upload", filename |-> filename]
         /\ IF Ext(filename) \notin {".edf", ".csv", ".mat"}
            THEN /\ resp' = [status |-> 400, detail |-> TRUE]
                 /\ UNCHANGED uploaded
            ELSE /\ resp' = [status |-> 200, filename |-> filename, has_tmp_path |-> TRUE,
                             tmp_path |-> UploadPath(Ext(filename))]
                 /\ uploaded' = uploaded \cup {UploadPath(Ext(filename))}
    /\ pc' = "done"
    /\ UNCHANGED <<cleanVars, cmpVars, opened, ret>>

ParseRequest ==
    /\ pc = "idle"
    /\ \E tmp_path \in TmpPaths, file \in Files :
         LET r == parse_eeg(tmp_path, file) IN
         /\ req' = [op |-> "parse", tmp_path |-> tmp_path]
         /\ resp' = IF r.raised THEN [status |-> r.status, detail |-> TRUE]
                    ELSE [status |-> 200, data_shape |-> r.data_shape]
         /\ opened' = OpenedAfter(tmp_path, file)
    /\ pc' = "done"
    /\ UNCHANGED <<cleanVars, cmpVars, uploaded, ret>>

\* POST /clean with a tmp_path key: parse_eeg is called inside the endpoint's try block
CleanPathRequest ==
    /\ pc = "idle"
    /\ \E tmp_path \in TmpPaths, file \in Files :
         LET r == parse_eeg(tmp_path, file)
             p == [op |-> "clean", caller |-> "endpoint", rank |-> 2, tmp_path |-> tmp_path,
                   nchan |-> IF r.raised THEN 0 ELSE r.data_shape[1],
                   nsamples |-> IF r.raised THEN 0 ELSE r.data_shape[2],
                   fs |-> 256,
                   bandpass |-> <<10, 450>>, highpass_freq |-> None,
                   lowpass_freq |-> None, notch_freq |-> 500,
                   ica_enabled |-> FALSE, ica_exclude |-> {}]
         IN  /\ req' = p
             /\ opened' = OpenedAfter(tmp_path, file)
             /\ IF r.raised                          \* except Exception as e
                THEN /\ resp' = Error(500)
                     /\ pc' = "done"
                     /\ UNCHANGED <<filtered, warnings>>
                ELSE /\ warnings' = IF p.nsamples <= WarnPadlen
                                    THEN <<[text |-> "Filtering skipped",
                                            length |-> p.nsamples,
                                            padlen |-> WarnPadlen]>>
                                    ELSE <<>>
                     /\ filtered' = PayloadData(p)
                     /\ pc' = "bandpass"
                     /\ UNCHANGED resp
    /\ UNCHANGED <<calls, skipped, failed, ica_obj, ret, cmpVars, uploaded>>

----------------------------------------------------------------------------
(* POST /ica *)

\* except Exception as e: raise HTTPException(status_code=500, detail=str(e))
ica_endpoint_swallow(data) ==
    [status |-> 200, cleaned |-> data, excluded |-> {}, detail |-> FALSE]
ica_endpoint_except(data) ==
    [status |-> 500, cleaned |-> NoSignal, excluded |-> {}, detail |-> TRUE]

IcaRequest ==
    /\ UNCHANGED <<cmpVars, fileVars>>
    /\ pc = "idle"
    /\ \E rank \in 1..3, nchan \in 1..MaxChan, n \in 0..MaxSamples,
          n_components \in {None} \cup 0..MaxComp, exclude \in ExcludeSet,
          fail \in IcaFailures :
         LET data == IF rank = 1 THEN Signal(1, n) ELSE Signal(nchan, n) IN
         /\ rank = 1 => nchan = 1
         /\ req' = [op |-> "ica", rank |-> rank, data |-> data,
                    n_components |-> n_components, exclude |-> exclude]
         /\ IF rank = 3 \/ n = 0                  \* data.ndim != 2 or data.size == 0
            THEN /\ resp' = [status |-> 400, cleaned |-> NoSignal, excluded |-> {},
                             detail |-> TRUE]
                 /\ UNCHANGED ret
            ELSE \E eog \in EogReports(NComp(n_components, data.nchan, n)) :
                   LET r == apply_ica(data, n_components, exclude, fail, eog) IN
                   /\ ret' = r
                   /\ resp' = IF r.raised THEN ica_endpoint_except(data)
                              ELSE [status |-> 200, cleaned |-> r.out,
                                    excluded |-> r.excluded, detail |-> FALSE]
    /\ pc' = "done"
    /\ UNCHANGED <<filtered, calls, skipped, failed, warnings, ica_obj>>

----------------------------------------------------------------------------
(* Spectral features.  Frequencies of this section are in Hz.  A number the  *)
(* code computes as a quotient is the pair <<numerator, denominator>>; the   *)
(* mean of an empty selection is 0/0, which numpy returns as NaN.            *)

MaxFeatSamples == 20

\* <<sample count, sampling rate>> of the signals handed to the feature functions
FeatureFs == {16, 100, 160, 256}
LongSignals == {<<160, 160>>, <<600, 100>>, <<3000, 256>>}
SignalSizes == ((1..MaxFeatSamples) \X FeatureFs) \cup LongSignals

\* bands = {"delta": (1, 4), "theta": (4, 8), "alpha": (8, 13), "beta": (13, 30), "gamma": (30, 45)}
BANDS ==
    [delta |-> <<1, 4>>, theta |-> <<4, 8>>, alpha |-> <<8, 13>>,
     beta |-> <<13, 30>>, gamma |-> <<30, 45>>]
BandNames == DOMAIN BANDS

\* the mean power of the signal over the bins of each band that has bins
PowerLevels == {0, 3}
Spectra == [BandNames -> PowerLevels]

IsNaN(v) == v[2] = 0
\* np.mean over a selection of `count` values that add up to `total`
Mean(total, count) == <<total, count>>

\* fftfreq(n_fft, 1 / fs)[k] = FreqNum(k, n_fft, fs) / n_fft
FreqNum(k, n_fft, fs) == (IF k <= (n_fft - 1) \div 2 THEN k ELSE k - n_fft) * fs

\* mask = (freqs >= low) & (freqs <= high), as the set of selected bins
BandMask(n_fft, fs, low, high) ==
    {k \in 0..(n_fft - 1) :
        low * n_fft <= FreqNum(k, n_fft, fs) /\ FreqNum(k, n_fft, fs) <= high * n_fft}

\* the bins each band's mask selects
BandMasks(n_fft, fs) ==
    [b \in BandNames |-> BandMask(n_fft, fs, BANDS[b][1], BANDS[b][2])]

compute_band_power(nchan, nsamples, fs, level) ==
    LET n_fft == Min(2048, nsamples)
        mask == BandMasks(n_fft, fs)
    IN  [n_fft |-> n_fft, mask |-> mask,
         powers |-> [b \in BandNames |->
                        LET count == nchan * Cardinality(mask[b])
                        IN  Mean(level[b] * count, count)]]

BandPowerCall ==
    /\ pc = "idle"
    /\ \E nchan \in 1..2, size \in SignalSizes, level \in Spectra :
         /\ req' = [op |-> "bandpower", nchan |-> nchan, nsamples |-> size[1],
                    fs |-> size[2], level |-> level]
         /\ ret' = Return(compute_band_power(nchan, size[1], size[2], level))
    /\ pc' = "done"
    /\ UNCHANGED <<cleanVars, cmpVars, fileVars, resp>>

\* compute_psd's defaults: nperseg, max_freq, max_points
PsdNperseg == 256
PsdMaxFreq == 45
PsdMaxPoints == 80

\* signals long enough for Welch segments of more than 2 * max_points samples
PsdSizes ==
    SignalSizes \cup
    {<<800, 100>>, <<1024, 16>>, <<1024, 100>>, <<1024, 103>>, <<1024, 143>>, <<1024, 160>>}

\* x // 4 or 64
QuarterOr64(x) == IF x \div 4 = 0 THEN 64 ELSE x \div 4

\* the segment length welch uses: a requested length above the input's is cut to it
SegmentLength(nperseg, nsamples) == Min(Min(nperseg, QuarterOr64(nsamples)), nsamples)

\* the products i * step that IEEE-754 doubles round to just below the exact
\* integer (step = len / max_points): <<len, i>>, for len up to nperseg // 2 + 1
RoundedBelow == {<<112, 45>>}

\* idx[i] with an integer stride
PsdIndexStride(i, len, max_points) == i * (len \div max_points)
\* idx[i] = min(int(i * (len / max_points)), len - 1)
PsdIndex(i, len, max_points) ==
    LET exact == (i * len) \div max_points
        trunc == IF max_points = PsdMaxPoints /\ <<len, i>> \in RoundedBelow
                 THEN exact - 1 ELSE exact
    IN  Min(trunc, len - 1)

compute_psd(nsamples, fs) ==
    LET seg == SegmentLength(PsdNperseg, nsamples)
        \* freqs[k] = k * fs / seg, k = 0 .. seg // 2; mask = (freqs >= 0) & (freqs <= max_freq)
        mask == {k \in 0..(seg \div 2) : k * fs <= PsdMaxFreq * seg}
        len == Cardinality(mask)
    IN  [nperseg |-> seg, len |-> len,
         idx |-> IF len > PsdMaxPoints
                 THEN [i \in 1..PsdMaxPoints |-> PsdIndex(i - 1, len, PsdMaxPoints)]
                 ELSE [i \in 1..len |-> i - 1]]

PsdCall ==
    /\ pc = "idle"
    /\ \E size \in PsdSizes :
         /\ req' = [op |-> "psd", nsamples |-> size[1], fs |-> size[2]]
         /\ ret' = Return(compute_psd(size[1], size[2]))
    /\ pc' = "done"
    /\ UNCHANGED <<cleanVars, cmpVars, fileVars, resp>>

\* the content of one channel, as far as its power spectrum goes:
\*   zero     every sample is 0: every bin is 0
\*   tone     one sinusoid at the first bin: bins 1 and n_fft - 1 are positive
\*   impulse  a single non-zero sample: every bin is positive, all equal
\*   noise    every bin is positive, not all equal
ChannelKinds == {"zero", "tone", "impulse", "noise"}
Channels == UNION {[1..n -> ChannelKinds] : n \in 1..2}

\* the bins of the spectrum Y = np.abs(fft(x, n=n_fft)) ** 2 that are > 0
PositiveBins(kind, n_fft) ==
    CASE kind = "zero" -> {}
      [] kind = "tone" -> {1, n_fft - 1} \cap (0..(n_fft - 1))
      [] OTHER         -> 0..(n_fft - 1)

\* entropy(p) / log(len(p)) of more than one positive value, in halves: Shannon's
\* entropy is log(len(p)) for equal values and lies strictly below it otherwise
EntropyRatio(kind) == IF kind = "impulse" THEN <<2, 2>> ELSE <<1, 2>>

\* np.clip(v, 0, 1)
Clip01(v) ==
    IF IsNaN(v) THEN v
    ELSE IF v[1] < 0 THEN <<0, 1>>
    ELSE IF v[1] > v[2] THEN <<1, 1>>
    ELSE v

RECURSIVE SumNum(_)
SumNum(vs) == IF vs = <<>> THEN 0 ELSE vs[1][1] + SumNum(Tail(vs))
\* np.mean of a list of values in halves
MeanOf(vs) == Mean(SumNum(vs), 2 * Len(vs))

\* the entropies of the rows with more than one positive bin among `bins`
RECURSIVE RowEntropies(_, _, _)
RowEntropies(kinds, n_fft, bins) ==
    IF kinds = <<>> THEN <<>>
    ELSE LET rest == RowEntropies(Tail(kinds), n_fft, bins) IN
         IF Cardinality(PositiveBins(Head(kinds), n_fft) \cap bins) > 1
         THEN <<EntropyRatio(Head(kinds))>> \o rest
         ELSE rest

\* np.mean(ents) if ents else 0, without the test
BandEntropyUnguarded(ents) == MeanOf(ents)
BandEntropy(ents) == IF ents # <<>> THEN MeanOf(ents) ELSE <<0, 1>>

compute_spectral_entropy(kinds, nsamples, fs) ==
    LET n_fft == Min(512, nsamples)
        \* mask = (freqs > 0) & (freqs <= 45)
        mask == {k \in 0..(n_fft - 1) :
                    0 < FreqNum(k, n_fft, fs) /\ FreqNum(k, n_fft, fs) <= 45 * n_fft}
        ent == [ch \in 1..Len(kinds) |->
                    IF Cardinality(PositiveBins(kinds[ch], n_fft) \cap mask) > 1
                    THEN EntropyRatio(kinds[ch]) ELSE <<0, 2>>]
        bands == BandMasks(n_fft, fs)
    IN  [n_fft |-> n_fft, mask |-> bands,
         per_channel |-> [ch \in 1..Len(kinds) |-> Clip01(ent[ch])],
         overall |-> MeanOf(ent),
         per_band |-> [b \in BandNames |->
                          Clip01(BandEntropy(RowEntropies(kinds, n_fft, bands[b])))]]

EntropyCall ==
    /\ pc = "idle"
    /\ \E kinds \in Channels, size \in SignalSizes :
         /\ req' = [op |-> "entropy", kinds |-> kinds, nchan |-> Len(kinds),
                    nsamples |-> size[1], fs |-> size[2]]
         /\ ret' = Return(compute_spectral_entropy(kinds, size[1], size[2]))
    /\ pc' = "done"
    /\ UNCHANGED <<cleanVars, cmpVars, fileVars, resp>>

----------------------------------------------------------------------------
(* Time-domain metrics of one channel *)

MaxMetricSamples == 4
SampleValues == {-2, 0, 3}
ChannelSamples == UNION {[1..n -> SampleValues] : n \in 1..MaxMetricSamples}

Abs(v) == IF v < 0 THEN -v ELSE v
\* np.sign
Sign(v) == IF v < 0 THEN -1 ELSE IF v > 0 THEN 1 ELSE 0

\* the number of consecutive pairs whose signs differ
RECURSIVE CountSignChanges(_)
CountSignChanges(x) ==
    IF Len(x) < 2 THEN 0
    ELSE (IF Sign(x[1]) # Sign(x[2]) THEN 1 ELSE 0) + CountSignChanges(Tail(x))
\* np.sum(np.abs(np.diff(np.sign(x))))
RECURSIVE SumAbsDiffSign(_)
SumAbsDiffSign(x) ==
    IF Len(x) < 2 THEN 0
    ELSE Abs(Sign(x[2]) - Sign(x[1])) + SumAbsDiffSign(Tail(x))

\* the part of compute_eeg_metrics that depends on the samples of one channel x
compute_eeg_metrics(x, fs) ==
    LET nsamples == Len(x)
        zcr == IF nsamples > 1 THEN <<SumAbsDiffSign(x), 2 * (nsamples - 1)>> ELSE <<0, 1>>
        n_fft == Min(2048, nsamples)
        mask == {k \in 0..(n_fft - 1) :
                    0 < FreqNum(k, n_fft, fs) /\ FreqNum(k, n_fft, fs) <= 45 * n_fft}
    IN  IF mask = {}
        THEN Raise   \* np.argmax of an empty selection: ValueError
        ELSE Return([zero_crossing_rate_per_channel |-> <<zcr>>,
                     zero_crossing_rate_mean |-> zcr])

MetricsCall ==
    /\ pc = "idle"
    /\ \E x \in ChannelSamples, fs \in {16, 160} :
         /\ req' = [op |-> "metrics", x |-> x, nsamples |-> Len(x), fs |-> fs]
         /\ ret' = compute_eeg_metrics(x, fs)
    /\ pc' = "done"
    /\ UNCHANGED <<cleanVars, cmpVars, fileVars, resp>>

----------------------------------------------------------------------------
(* POST /time-freq-spectrogram *)

\* a Python list, as ndarray.tolist() builds it
List(rows, cols) == [type |-> "list", rows |-> rows, cols |-> cols]
\* value.tolist(): a method of ndarray; a list has no such attribute
ToList(v) == IF v.type = "ndarray" THEN Return(List(v.rows, v.cols)) ELSE Raise

\* compute_time_freq_spectrogram's defaults: nperseg, freq_min, freq_max
SpecNperseg == 128
SpecFreqMin == 2
SpecFreqMax == 80

\* payload sizes: short signals, and signals around and above 4 * (nperseg // 2) samples
SpectrogramSizes ==
    SignalSizes \cup {<<0, 160>>, <<259, 160>>, <<260, 160>>, <<2000, 160>>, <<2000, 3>>}

\* the arguments handed to scipy's spectrogram:
\* nperseg=min(nperseg, len(sig) // 4 or 64), noverlap=nperseg // 2
SpectrogramArgs(nsamples) ==
    [nperseg |-> Min(SpecNperseg, QuarterOr64(nsamples)), noverlap |-> SpecNperseg \div 2]

compute_time_freq_spectrogram(nsamples, fs) ==
    LET seg == Min(SpectrogramArgs(nsamples).nperseg, nsamples)
        noverlap == SpectrogramArgs(nsamples).noverlap
        \* f[k] = k * fs / seg, k = 0 .. seg // 2; mask = (f >= freq_min) & (f <= freq_max)
        mask == {k \in 0..(seg \div 2) :
                    SpecFreqMin * seg <= k * fs /\ k * fs <= SpecFreqMax * seg}
        ntimes == (nsamples - noverlap) \div (seg - noverlap)
    IN  IF noverlap >= seg
        THEN Raise   \* scipy: noverlap must be less than nperseg
        ELSE Return([type |-> "tuple",
                     items |-> <<List(1, ntimes), List(1, Cardinality(mask)),
                                 List(Cardinality(mask), ntimes)>>])

SpectrogramError(status) == [status |-> status, detail |-> TRUE]

\* the try block of the endpoint: transform, plot, build the JSON content
time_freq_spectrogram_try(nsamples, fs) ==
    LET r == compute_time_freq_spectrogram(nsamples, fs) IN
    IF r.raised THEN SpectrogramError(500)
    ELSE LET t_ms == r.out.items[1]
             f_hz == r.out.items[2]
             db_matrix == r.out.items[3]
         IN  IF f_hz.cols = 0 THEN SpectrogramError(500)   \* f_arr[0]: IndexError
             ELSE IF ToList(db_matrix).raised
                  THEN SpectrogramError(500)   \* except Exception as e: HTTPException(500)
                  ELSE [status |-> 200, times_ms |-> t_ms, frequencies_hz |-> f_hz,
                        db_matrix |-> ToList(db_matrix).out]

\* compute_time_freq_spectrogram(data, fs) called on a non-empty signal
SpectrogramCall ==
    /\ pc = "idle"
    /\ \E size \in SpectrogramSizes :
         /\ size[1] > 0
         /\ req' = [op |-> "spectrogram_call", nsamples |-> size[1], fs |-> size[2]]
         /\ ret' = compute_time_freq_spectrogram(size[1], size[2])
    /\ pc' = "done"
    /\ UNCHANGED <<cleanVars, cmpVars, fileVars, resp>>

SpectrogramRequest ==
    /\ pc = "idle"
    /\ \E rank \in 1..3, nchan \in 1..2, size \in SpectrogramSizes :
         /\ rank = 1 => nchan = 1
         /\ req' = [op |-> "spectrogram", rank |-> rank, nchan |-> nchan,
                    nsamples |-> size[1], fs |-> size[2]]
         /\ resp' = IF rank = 3 \/ size[1] = 0
                    THEN SpectrogramError(400)
                    ELSE time_freq_spectrogram_try(size[1], size[2])
    /\ pc' = "done"
    /\ UNCHANGED <<cleanVars, cmpVars, fileVars, ret>>

----------------------------------------------------------------------------
(* POST /ai-insights *)

NaN == <<0, 0>>
RECURSIVE GCD(_, _)
GCD(a, b) == IF b = 0 THEN a ELSE GCD(b, a % b)
\* the quotient num / den in lowest terms, with a positive denominator
Reduced(num, den) ==
    LET g == GCD(Abs(num), Abs(den))
        sgn == IF den < 0 THEN -1 ELSE 1
    IN  <<sgn * (num \div g), sgn * (den \div g)>>
\* a / b for b # 0, each NaN or a quotient
Quot(a, b) == IF IsNaN(a) \/ IsNaN(b) THEN NaN ELSE Reduced(a[1] * b[2], a[2] * b[1])
\* a + b
Plus(a, b) ==
    IF IsNaN(a) \/ IsNaN(b) THEN NaN ELSE Reduced(a[1] * b[2] + b[1] * a[2], a[2] * b[2])
\* x / (y + 1e-12) / k for powers x, y >= 0 and k > 0: above 1 whenever y = 0 < x
RatioOver(x, y, k) ==
    IF IsNaN(x) \/ IsNaN(y) THEN NaN
    ELSE IF y[1] = 0 THEN (IF x[1] = 0 THEN <<0, 1>> ELSE <<2, 1>>)
    ELSE Reduced(x[1] * y[2], k * x[2] * y[1])

compute_ai_insights(kinds, nsamples, fs, level) ==
    LET bands == compute_band_power(Len(kinds), nsamples, fs, level).powers
        ent == compute_spectral_entropy(kinds, nsamples, fs)
        alpha == bands["alpha"]
        beta == bands["beta"]
        theta == bands["theta"]
        sum == Plus(Plus(Plus(Plus(alpha, beta), theta), bands["delta"]), bands["gamma"])
        \* if total < 1e-12: total = 1
        total == IF ~IsNaN(sum) /\ sum[1] = 0 THEN <<1, 1>> ELSE sum
        a_norm == Quot(alpha, total)
        b_norm == Quot(beta, total)
        t_norm == Quot(theta, total)
        g_norm == Quot(bands["gamma"], total)
        \* (1 - a_norm) * 0.5 + b_norm * 0.5
        stress == Quot(Plus(Plus(<<1, 1>>, Quot(a_norm, <<-1, 1>>)), b_norm), <<2, 1>>)
        \* (b_norm + g_norm) * 0.6 + (1 - t_norm) * 0.4
        attention ==
            Plus(Quot(Plus(b_norm, g_norm), <<10, 6>>),
                 Quot(Plus(<<1, 1>>, Quot(t_norm, <<-1, 1>>)), <<10, 4>>))
    IN  [cognitive_load |-> Clip01(RatioOver(beta, alpha, 3)),
         mental_fatigue |-> Clip01(RatioOver(theta, alpha, 2)),
         stress_probability |-> Clip01(stress),
         attention_index |-> Clip01(attention),
         band_power |-> bands,
         spectral_entropy_overall |-> ent.overall]

\* the signals of the payloads: all-zero, or with power in every band
InsightSizes == {<<0, 160>>, <<1, 160>>, <<20, 160>>, <<160, 160>>}
InsightSignals ==
    [kind : {"zero"}, level : {[b \in BandNames |-> 0]}] \cup
    [kind : {"noise"}, level : [BandNames -> {1, 3}]]

\* json.dumps(content, allow_nan=False) of the result
JsonCompliant(result) ==
    /\ \A k \in {"cognitive_load", "mental_fatigue", "stress_probability",
                 "attention_index", "spectral_entropy_overall"} : ~IsNaN(result[k])
    /\ \A b \in BandNames : ~IsNaN(result.band_power[b])

InsightsRequest ==
    /\ pc = "idle"
    /\ \E rank \in 1..3, nchan \in 1..2, size \in InsightSizes, sig \in InsightSignals :
         LET kinds == [ch \in 1..nchan |-> sig.kind]
             result == compute_ai_insights(kinds, size[1], size[2], sig.level)
         IN  /\ rank = 1 => nchan = 1
             /\ req' = [op |-> "insights", rank |-> rank, nchan |-> nchan, kind |-> sig.kind,
                        nsamples |-> size[1], fs |-> size[2], level |-> sig.level]
             /\ IF rank = 3 \/ size[1] = 0
                THEN /\ resp' = [status |-> 400, detail |-> TRUE]
                     /\ ret' = Raise
                ELSE /\ ret' = Return(result)
                     /\ resp' = IF JsonCompliant(result)
                                THEN [status |-> 200, content |-> result]
                                ELSE [status |-> 500, detail |-> FALSE]
    /\ pc' = "done"
    /\ UNCHANGED <<cleanVars, cmpVars, fileVars>>

----------------------------------------------------------------------------
(* POST /compare: proxy metrics of the data under two pipelines *)

\* a * b, a - b, a < b on quotients
Times(a, b) == IF IsNaN(a) \/ IsNaN(b) THEN NaN ELSE Reduced(a[1] * b[1], a[2] * b[2])
Minus(a, b) == Plus(a, <<-b[1], b[2]>>)
Less(a, b) == ~IsNaN(a) /\ ~IsNaN(b) /\ a[1] * b[2] < b[1] * a[2]

\* np.clip(v, lo, hi) for integers lo <= hi
Clip(v, lo, hi) ==
    IF IsNaN(v) THEN v
    ELSE IF v[1] < lo * v[2] THEN <<lo, 1>>
    ELSE IF v[1] > hi * v[2] THEN <<hi, 1>>
    ELSE v

PipelineNames == {"CSP + LDA", "Riemannian + MDM", "Filter-bank + EEGNet", "CSP + SVM", "other"}
\* (low, high) Hz of a pipeline
_pipeline_bandpass(name) ==
    CASE name \in {"CSP + LDA", "CSP + SVM"} -> <<8, 30>>
      [] name = "Riemannian + MDM"           -> <<4, 45>>
      [] name = "Filter-bank + EEGNet"       -> <<2, 40>>
      [] OTHER                               -> <<1, 45>>

_metrics_from_data(kinds, nsamples, fs, level) ==
    LET bp == compute_band_power(Len(kinds), nsamples, fs, level).powers
        ent == compute_spectral_entropy(kinds, nsamples, fs)
        sum == Plus(Plus(Plus(Plus(bp["delta"], bp["theta"]), bp["alpha"]), bp["beta"]),
                    bp["gamma"])
        \* bp.get("alpha", 0) / total with total = sum(bp.values()) + 1e-12
        alpha == IF ~IsNaN(sum) /\ sum[1] = 0 THEN <<0, 1>> ELSE Quot(bp["alpha"], sum)
        \* 50 + 25 * (alpha - 0.2) + 15 * (1 - ent["overall"])
        proxy == Plus(Plus(<<50, 1>>, Times(<<25, 1>>, Minus(alpha, <<1, 5>>))),
                      Times(<<15, 1>>, Minus(<<1, 1>>, ent.overall)))
        acc == Clip(proxy, 45, 92)
    IN  [accuracy |-> acc,
         balancedAcc |-> Times(acc, <<99, 100>>),
         rocAuc |-> Plus(<<1, 2>>, Quot(Minus(acc, <<50, 1>>), <<100, 1>>)),
         kappa |-> Quot(Minus(acc, <<50, 1>>), <<50, 1>>),
         f1 |-> Quot(Minus(acc, <<45, 1>>), <<55, 1>>),
         itr |-> Times(Minus(acc, <<50, 1>>), <<3, 10>>),
         trials |-> <<288, 1>>]

StatNames == {"accuracy", "kappa", "rocAuc"}
\* 0.05 if abs(delta) > 1 else 0.15, with the threshold at a tenth
PValueTenth(delta) ==
    IF ~IsNaN(delta) /\ 10 * Abs(delta[1]) > delta[2] THEN <<5, 100>> ELSE <<15, 100>>
\* 0.05 if abs(delta) > 1 else 0.15
PValue(delta) ==
    IF ~IsNaN(delta) /\ Abs(delta[1]) > delta[2] THEN <<5, 100>> ELSE <<15, 100>>

\* the stats of the response, from the means of the two tables
Stats(mean_a, mean_b) ==
    [k \in StatNames |->
        LET delta == Minus(mean_b[k], mean_a[k])
            pval == PValue(delta)
        IN  [meanA |-> mean_a[k], meanB |-> mean_b[k], delta |-> delta,
             pValue |-> pval, significant |-> Less(pval, <<1, 10>>)]]

\* json.dumps(content, allow_nan=False) of the tables and the stats
TablesCompliant(ta, tb) ==
    \A t \in {ta, tb} : \A i \in 1..Len(t) : \A k \in DOMAIN t[i] \ {"subject"} :
        ~IsNaN(t[i][k])

\* <<sample count, sampling rate>> of the payloads of POST /compare
CompareSizes == {<<0, 160>>, <<20, 160>>, <<160, 160>>, <<160, 60>>}
\* what a one-channel signal holds: nothing, a flat spectrum, power in one band
CompareSignals ==
    {[kinds |-> <<"zero">>,    level |-> [b \in BandNames |-> 0]],
     [kinds |-> <<"impulse">>, level |-> [b \in BandNames |-> 3]],
     [kinds |-> <<"noise">>,   level |-> [b \in BandNames |-> IF b = "alpha" THEN 3 ELSE 0]],
     [kinds |-> <<"noise">>,   level |-> [b \in BandNames |-> IF b = "beta" THEN 3 ELSE 0]]}

\* the content of bandpass_filter's output: the input when the filter was
\* skipped, anything otherwise
Filtered(r, sig) == IF r.out.ops = <<>> THEN {sig} ELSE CompareSignals

CompareRequest ==
    /\ pc = "idle"
    /\ \E rank \in 1..3, size \in CompareSizes, sig \in CompareSignals,
          pipeline_a \in {"CSP + LDA", "other"},
          pipeline_b \in {"Riemannian + MDM", "Filter-bank + EEGNet"} :
         LET nsamples == size[1]
             fs == size[2]
             data == Signal(1, nsamples)
             band_a == _pipeline_bandpass(pipeline_a)
             band_b == _pipeline_bandpass(pipeline_b)
             data_a == bandpass_filter(data, 10 * band_a[1], 10 * band_a[2], fs)
             data_b == bandpass_filter(data, 10 * band_b[1], 10 * band_b[2], fs)
         IN  /\ req' = [op |-> "compare", rank |-> rank, nsamples |-> nsamples, fs |-> fs,
                        sig |-> sig, pipeline_a |-> pipeline_a, pipeline_b |-> pipeline_b]
             /\ IF rank = 3 \/ nsamples = 0
                THEN resp' = [status |-> 400, detail |-> TRUE]
                ELSE IF data_a.raised \/ data_b.raised
                THEN resp' = [status |-> 500, detail |-> FALSE]
                ELSE \E sig_a \in Filtered(data_a, sig), sig_b \in Filtered(data_b, sig) :
                       LET m_a == _metrics_from_data(sig_a.kinds, nsamples, fs, sig_a.level)
                           m_b == _metrics_from_data(sig_b.kinds, nsamples, fs, sig_b.level)
                           row_a == [subject |-> "S01"] @@ m_a
                           row_b == [subject |-> "S01"] @@ m_b
                       IN  resp' = IF TablesCompliant(<<row_a>>, <<row_b>>)
                                   THEN [status |-> 200, tableA |-> <<row_a>>,
                                         tableB |-> <<row_b>>, stats |-> Stats(m_a, m_b)]
                                   ELSE [status |-> 500, detail |-> FALSE]
    /\ pc' = "done"
    /\ UNCHANGED <<cleanVars, cmpVars, fileVars, ret>>

----------------------------------------------------------------------------
(* POST /compare-multi *)

MaxSubjects == 3
\* <<start_subject, num_subjects>> of the payloads
SubjectRanges == ({1} \X (0..MaxSubjects)) \cup {<<108, 25>>, <<110, 2>>}

\* list(range(a, b))
Range(a, b) == [i \in 1..Max(b - a, 0) |-> a + i - 1]

\* where the body of the loop can raise: loading the recording, either metrics call
SubjectFailures == {"none", "load", "metrics_a", "metrics_b"}

\* the two tables after the iteration for subject s, each row appended as soon as
\* its metrics are computed
SubjectRowsEarly(ta, tb, row_a, row_b, fail) ==
    CASE fail = "none"      -> <<Append(ta, row_a), Append(tb, row_b)>>
      [] fail = "metrics_b" -> <<Append(ta, row_a), tb>>
      [] OTHER              -> <<ta, tb>>
\* the two tables after the iteration for a subject with rows row_a and row_b
SubjectRows(ta, tb, row_a, row_b, fail) ==
    IF fail = "none"
    THEN <<Append(ta, row_a), Append(tb, row_b)>>
    ELSE <<ta, tb>>

\* a recording cut to its first 8000 samples, at PhysioNet's rate
SubjectSamples == 8000
SubjectFs == 160
\* the content of a recording after pipeline A's and after pipeline B's band-pass
SubjectSignals ==
    {<<sa, sb>> \in CompareSignals \X CompareSignals :
        \/ sa.kinds = <<"impulse">> /\ sb.kinds = <<"noise">> /\ sb.level["alpha"] = 3
        \/ sa = sb /\ sa.kinds = <<"noise">> /\ sa.level["beta"] = 3}

\* sum(r[k] for r in table) / len(table)
RECURSIVE SumOver(_, _)
SumOver(table, k) ==
    IF table = <<>> THEN <<0, 1>> ELSE Plus(Head(table)[k], SumOver(Tail(table), k))
MeanOver(table) == [k \in StatNames |-> Quot(SumOver(table, k), <<Len(table), 1>>)]

CompareMultiRequest ==
    /\ pc = "idle"
    /\ \E source \in {"physionet", "upload"}, range \in SubjectRanges :
         LET start_subject == range[1]
             num_subjects == Min(range[2], 20)
         IN  /\ req' = [op |-> "compare_multi", source |-> source,
                        start_subject |-> start_subject, num_subjects |-> range[2],
                        subjects |-> Range(start_subject,
                                           Min(start_subject + num_subjects, 110))]
             /\ IF source # "physionet" \/ num_subjects < 1
                THEN /\ resp' = [status |-> 400, detail |-> TRUE]
                     /\ pc' = "done"
                     /\ todo' = <<>>
                ELSE /\ resp' = NoResp
                     /\ pc' = "subject"
                     /\ todo' = req'.subjects
    /\ table_a' = <<>>
    /\ table_b' = <<>>
    /\ lost' = {}
    /\ UNCHANGED <<cleanVars, fileVars, ret>>

\* one iteration of `for s in subjects`
CompareMultiSubject ==
    /\ pc = "subject" /\ todo # <<>>
    /\ \E fail \in SubjectFailures, sigs \in SubjectSignals :
         LET m_a == _metrics_from_data(sigs[1].kinds, SubjectSamples, SubjectFs, sigs[1].level)
             m_b == _metrics_from_data(sigs[2].kinds, SubjectSamples, SubjectFs, sigs[2].level)
             rows == SubjectRows(table_a, table_b, [subject |-> Head(todo)] @@ m_a,
                                 [subject |-> Head(todo)] @@ m_b, fail)
         IN
         /\ table_a' = rows[1]
         /\ table_b' = rows[2]
         /\ lost' = IF fail = "none" THEN lost ELSE lost \cup {Head(todo)}
    /\ todo' = Tail(todo)
    /\ UNCHANGED <<pc, req, cleanVars, fileVars, ret, resp>>

\* after the loop
CompareMultiRespond ==
    /\ pc = "subject" /\ todo = <<>>
    /\ resp' = IF table_a = <<>> \/ table_b = <<>>
               THEN [status |-> 500, detail |-> TRUE]
               ELSE IF ~TablesCompliant(table_a, table_b)
               THEN [status |-> 500, detail |-> FALSE]
               ELSE [status |-> 200, tableA |-> table_a, tableB |-> table_b,
                     stats |-> Stats(MeanOver(table_a), MeanOver(table_b))]
    /\ pc' = "done"
    /\ UNCHANGED <<req, cleanVars, cmpVars, fileVars, ret>>

----------------------------------------------------------------------------

(***************************************************************************)
(* _raw_to_eeg_response: a recording as an API response.                   *)
(***************************************************************************)
MaxRawSamples == 12
MaxLimit == 4

\* max_samples values: None, 0 and positive limits
SampleLimits == {None} \cup (0 .. MaxLimit)

\* len(range(0, n, step)): the number of columns kept by data[:, ::step]
StrideCount(n, step) == (n + step - 1) \div step

\* the number of samples per channel of the returned data
KeptSamples(nsamples, max_samples) ==
    IF max_samples # None /\ max_samples # 0 /\ nsamples > max_samples
    THEN StrideCount(nsamples, nsamples \div max_samples)
    ELSE nsamples

_raw_to_eeg_response(nchan, nsamples, max_samples) ==
    LET kept == KeptSamples(nsamples, max_samples)
    IN  [type |-> "dict", channels |-> nchan, data_shape |-> <<nchan, kept>>,
         preview |-> List(nchan, Min(500, kept)), data |-> List(nchan, kept)]

RawToEegResponseCall ==
    /\ pc = "idle"
    /\ \E nchan \in 1 .. MaxChan, nsamples \in 1 .. MaxRawSamples,
          max_samples \in SampleLimits :
         /\ req' = [op |-> "raw_to_eeg_response", nchan |-> nchan,
                    nsamples |-> nsamples, max_samples |-> max_samples]
         /\ ret' = Return(_raw_to_eeg_response(nchan, nsamples, max_samples))
    /\ pc' = "done"
    /\ UNCHANGED <<cleanVars, cmpVars, fileVars, resp>>

Next ==
    \/ FilterCall
    \/ CleanRequest
    \/ CleanCall
    \/ StageBandpass
    \/ StageHighpass
    \/ StageLowpass
    \/ StageNotch
    \/ StageBaseline
    \/ StageIca
    \/ CleanReturn
    \/ CleanRespond
    \/ IcaRequest
    \/ UploadRequest
    \/ ParseRequest
    \/ CleanPathRequest

Spec == Init /\ [][Next]_vars

\* the feature functions and the endpoints that report them
NextFeatures ==
    \/ RawToEegResponseCall
    \/ BandPowerCall
    \/ PsdCall
    \/ EntropyCall
    \/ MetricsCall
    \/ SpectrogramCall
    \/ CompareRequest
    \/ SpectrogramRequest
    \/ InsightsRequest
    \/ CompareMultiRequest
    \/ CompareMultiSubject
    \/ CompareMultiRespond

SpecFeatures == Init /\ [][NextFeatures]_vars

\* the server takes the next request: the locals of the request served are
\* gone, the temporary files stay
NextRequest ==
    /\ pc = "done"
    /\ pc' = "idle"
    /\ req' = Idle
    /\ filtered' = NoSignal
    /\ calls' = <<>>
    /\ skipped' = {}
    /\ failed' = ""
    /\ warnings' = <<>>
    /\ ica_obj' = IcaNone
    /\ ret' = Return(NoSignal)
    /\ resp' = NoResp
    /\ UNCHANGED <<cmpVars, fileVars>>

\* sequences of requests that put files on the server and read them
NextFiles ==
    \/ UploadRequest
    \/ ParseRequest
    \/ CleanPathRequest
    \/ StageBandpass
    \/ StageHighpass
    \/ StageLowpass
    \/ StageNotch
    \/ StageBaseline
    \/ StageIca
    \/ CleanReturn
    \/ CleanRespond
    \/ NextRequest

SpecFiles == Init /\ [][NextFiles]_vars

----------------------------------------------------------------------------
(* Properties *)

IsPrefix(s, t) == Len(s) <= Len(t) /\ SubSeq(t, 1, Len(s)) = s
Last(s) == s[Len(s)]

\* clean_eeg has returned to its caller
CleanReturned == req.op = "clean" /\ ~ret.raised /\ ret.out.type = "tuple"
\* the baseline statement of clean_eeg has been executed
BaselineDone == req.op = "clean" /\ (pc \in {"ica", "return", "respond"} \/ CleanReturned)
\* a direct filter call has ended
FilterDone == pc = "done" /\ req.op = "filter"
\* POST /clean has answered
CleanAnswered == pc = "done" /\ req.op = "clean" /\ req.caller = "endpoint"
\* POST /ica has answered a well-formed payload
IcaAnswered == pc = "done" /\ req.op = "ica" /\ resp.status # 400

(* C1: the filter stages clean_eeg invokes are the requested ones (bandpass  *)
(* iff both cutoffs are given, highpass, lowpass and notch iff their own     *)
(* parameter is given, baseline always), in the order bandpass, highpass,    *)
(* lowpass, notch, baseline: at every moment the stages invoked so far are a *)
(* prefix of that list, and a call that gets past the baseline has invoked   *)
(* exactly that list.                                                        *)
C1_Order == <<"bandpass", "highpass", "lowpass", "notch", "baseline">>
C1_Requested(s) ==
    CASE s = "bandpass" -> req.bandpass[1] # None /\ req.bandpass[2] # None
      [] s = "highpass" -> req.highpass_freq # None
      [] s = "lowpass"  -> req.lowpass_freq # None
      [] s = "notch"    -> req.notch_freq # None
      [] s = "baseline" -> TRUE
C1_NotIca(s) == s # "ica"
C1_Executed == SelectSeq(calls, C1_NotIca)
C2_BaselineIsLastTransformation ==
    CleanReturned =>
        LET ops == ret.out.items[1].ops IN Len(ops) > 0 /\ Last(ops) = "baseline"
(* C2 amended: baseline correction is applied exactly once, after every      *)
(* filter stage; the only transformations after it are those of the optional *)
(* artifact-removal stage, and with ica_enabled = false there is none.       *)
C2_BaselineLastOfFilters ==
    BaselineDone =>
        LET ops == filtered.ops IN
        \E i \in 1..Len(ops) :
            /\ ops[i] = "baseline"
            /\ \A j \in 1..(i - 1) : ops[j] \in FilterKinds
            /\ \A j \in (i + 1)..Len(ops) : ops[j] \in {"ica_highpass", "ica_apply"}
            /\ ~req.ica_enabled => i = Len(ops)
C2_Witness ==
    /\ CleanReturned
    /\ req.ica_enabled
    /\ ret.out.items[1].ops = <<"notch", "baseline", "ica_highpass", "ica_apply">>

(* C3: with valid cutoffs each filter returns its input unmodified when the  *)
(* sample count is <= 3 * max(len(a), len(b)) (27 bandpass, 15 low/highpass, *)
(* 9 notch) and applies the zero-phase filter exactly when it is greater.    *)
C3_Threshold(kind) ==
    CASE kind = "bandpass" -> 27
      [] kind = "highpass" -> 15
      [] kind = "lowpass"  -> 15
      [] kind = "notch"    -> 9
C3_ValidCutoffs ==
    /\ req.fs > 0
    /\ 0 < 2 * req.lo /\ 2 * req.lo < 10 * req.fs
    /\ req.kind = "bandpass" => (0 < 2 * req.hi /\ 2 * req.hi < 10 * req.fs)
C3_ShortInputUnmodified ==
    (FilterDone /\ C3_ValidCutoffs) =>
        /\ ~ret.raised
        /\ req.data.nsamples <= C3_Threshold(req.kind) => ret.out = req.data
        /\ req.data.nsamples > C3_Threshold(req.kind) =>
               ret.out = [req.data EXCEPT !.ops = <<req.kind>>]
C3_Witness ==
    /\ FilterDone /\ C3_ValidCutoffs
    /\ req.kind = "lowpass" /\ req.data.nsamples = 15
    /\ ret.out = req.data

(* C4 as stated: on a 20-sample input at fs = 160 each of bandpass 1-45 Hz,  *)
(* highpass 0.5 Hz, lowpass 45 Hz and notch 50 Hz returns the input          *)
(* unchanged and raises nothing.                                             *)
C4_TestArgs(kind) ==
    CASE kind = "bandpass" -> <<10, 450>>
      [] kind = "highpass" -> <<5, None>>
      [] kind = "lowpass"  -> <<450, None>>
      [] kind = "notch"    -> <<500, None>>
C4_Case ==
    /\ FilterDone
    /\ req.data.nsamples = 20 /\ req.fs = 160
    /\ <<req.lo, req.hi>> = C4_TestArgs(req.kind)
C4_TwentySamplesUnchanged == C4_Case => (~ret.raised /\ ret.out = req.data)
(* C4 amended: on that input no filter raises and each returns an array of   *)
(* the input's shape; only the bandpass (threshold 27) returns the input     *)
(* unchanged, while highpass, lowpass (15) and notch (9) filter it.          *)
C4_TwentySamplesNoRaise ==
    C4_Case =>
        /\ ~ret.raised
        /\ ret.out.nchan = req.data.nchan /\ ret.out.nsamples = req.data.nsamples
        /\ ret.out = req.data <=> req.kind = "bandpass"
C4_Witness == C4_Case /\ req.kind = "highpass" /\ ret.out.ops = <<"highpass">>

(* C5: a filter function never raises when its input is at or below the      *)
(* padding-length threshold, whatever the cutoff and sampling rate.          *)
C5_NeverRaisesOnShortInput ==
    (FilterDone /\ req.data.nsamples <= C3_Threshold(req.kind)) => ~ret.raised

(* C6 as stated: whenever a requested filter stage of POST /clean degrades   *)
(* to a no-op because the signal is too short, the response is a 200 with a  *)
(* non-empty warnings list naming the skip.                                  *)
C6_WarnedSuccess ==
    /\ resp.status = 200
    /\ resp.warnings # <<>>
    /\ resp.warnings[1].text = "Filtering skipped"
C6_SkipAlwaysWarned == (CleanAnswered /\ skipped # {}) => C6_WarnedSuccess
(* C6 amended: when a requested stage degrades to a no-op, the response is a *)
(* 200 with the warning unless the filter design of another requested stage  *)
(* rejects its cutoff, in which case the response is the 500 error.          *)
C6_SkipWarnedUnlessDesignFails ==
    (CleanAnswered /\ skipped # {}) =>
        IF failed \in FilterKinds THEN resp.status = 500 ELSE C6_WarnedSuccess
C6_Witness ==
    /\ CleanAnswered
    /\ req.nsamples = 20
    /\ skipped = {"bandpass"}
    /\ "lowpass" \in {calls[i] : i \in 1..Len(calls)}
    /\ C6_WarnedSuccess

(* C7: with ica_enabled = true, when the artifact-removal stage raises,      *)
(* clean_eeg still returns; its signal is the filtered, baseline-corrected   *)
(* signal it had before the stage, it reports no ICA object and no excluded  *)
(* components, and POST /clean answers 200.                                  *)
C7_StageLeavesSignal ==
    (pc = "ica" /\ failed' = "ica") =>
        (filtered' = filtered /\ ica_obj' = IcaNone /\ pc' = "return")
C7_ReturnsFallback ==
    (req.op = "clean" /\ failed = "ica") =>
        /\ req.ica_enabled
        /\ filtered.ops # <<>> /\ Last(filtered.ops) = "baseline"
        /\ CleanReturned => ret.out.items = <<filtered, IcaNone>>
        /\ CleanAnswered =>
              /\ resp.status = 200
              /\ resp.cleaned = filtered
              /\ ~resp.has_ica_excluded /\ resp.ica_excluded = {}
              /\ resp.topomap = "none"
C7_IcaFailureFallsBack == []C7_ReturnsFallback /\ [][C7_StageLeavesSignal]_vars
C7_Witness ==
    /\ CleanAnswered /\ failed = "ica"
    /\ resp.status = 200
    /\ resp.cleaned.ops = <<"bandpass", "baseline">>

(* C8 as stated: when artifact removal fails inside POST /ica the endpoint   *)
(* returns the unmodified input as cleaned_data with an empty                *)
(* excluded_components list.                                                 *)
C8_IcaEndpointSwallows ==
    (IcaAnswered /\ ret.raised) =>
        (resp.status = 200 /\ resp.cleaned = req.data /\ resp.excluded = {})
(* C8 amended: when artifact removal fails inside POST /ica the endpoint     *)
(* answers 500 with the exception message as detail; it returns the          *)
(* unmodified input with an empty exclusion list only when apply_ica skips   *)
(* the decomposition.                                                        *)
C8_IcaEndpointAnswers500 ==
    IcaAnswered =>
        /\ ret.raised => (resp.status = 500 /\ resp.detail)
        /\ ~ret.raised =>
              /\ resp.status = 200
              /\ ret.fit_n = 0 => (resp.cleaned = req.data /\ resp.excluded = {})
              /\ ret.fit_n > 0 => resp.cleaned # req.data
C8_Witness == IcaAnswered /\ ret.raised /\ ret.fit_n >= 2 /\ resp.status = 500

(* C9 as stated: apply_ica decomposes only when the number of components     *)
(* (n_components, or the derived default) is >= 2 and                        *)
(* <= min(nchan - 1, nsamples / 3); for any other number the stage is        *)
(* skipped and the input returned unchanged with an empty exclusion list.    *)
C9_Requested ==
    IF req.n_components \in {None, 0}
    THEN Min(req.data.nchan, (95 * Min(req.data.nchan, req.data.nsamples \div 3)) \div 100)
    ELSE req.n_components
C9_Bound == Min(req.data.nchan - 1, req.data.nsamples \div 3)
C9_InRange(n) == 2 <= n /\ n <= C9_Bound
C9_Skipped ==
    /\ ret.fit_n = 0
    /\ ret.out = req.data /\ ret.excluded = {} /\ ret.ica = IcaNone
C9_OutOfRangeSkips ==
    IcaAnswered =>
        /\ ret.fit_n > 0 => C9_InRange(C9_Requested)
        /\ (~ret.raised /\ ~C9_InRange(C9_Requested)) => C9_Skipped
(* C9 amended: apply_ica clamps the number of components to                  *)
(* min(n, nchan - 1, nsamples // 3) and decomposes with the clamped number   *)
(* exactly when it is >= 2; a caller-supplied n_components above the bound   *)
(* is clamped to it, and the stage is skipped (input unchanged, empty        *)
(* exclusion list, no ICA object) only when the clamped number is < 2.       *)
C9_ClampedThenSkipped ==
    IcaAnswered =>
        LET n == Min(C9_Requested, C9_Bound) IN
        /\ ret.fit_n > 0 => (ret.fit_n = n /\ C9_InRange(ret.fit_n))
        /\ (~ret.raised /\ n >= 2) => (ret.fit_n = n /\ ret.ica.n = n)
        /\ (~ret.raised /\ n < 2) => C9_Skipped
C9_Witness ==
    /\ IcaAnswered /\ ~ret.raised
    /\ req.n_components = 4 /\ req.data.nchan = 3
    /\ ret.fit_n = 2

(* C10: the value clean_eeg returns is the cleaned channel x sample array    *)
(* itself, of the input's shape.                                             *)
C10_ReturnsArray ==
    (req.op = "clean" /\ req.caller = "direct" /\ pc = "done" /\ ~ret.raised) =>
        /\ ret.out.type = "ndarray"
        /\ ret.out.nchan = req.nchan /\ ret.out.nsamples = req.nsamples

\* POST /clean has answered one of the UI preset payloads
PresetAnswered == CleanAnswered /\ "preset" \in DOMAIN req

(* C11: for each of the five UI presets combined with a 50 or 60 Hz notch,   *)
(* on a 2-channel 3000-sample input at fs = 160, POST /clean invokes every   *)
(* stage (bandpass, highpass, lowpass, notch, baseline) with no filter       *)
(* design error and no skipped stage, and answers 200 with a non-empty       *)
(* cleaned_data of the input's shape.                                        *)
C11_PresetsClean ==
    PresetAnswered =>
        /\ resp.status = 200
        /\ failed = "" /\ skipped = {}
        /\ calls = <<"bandpass", "highpass", "lowpass", "notch", "baseline">>
        /\ resp.cleaned.type = "ndarray"
        /\ resp.cleaned.nchan = 2 /\ resp.cleaned.nsamples = PresetSamples
        /\ resp.cleaned.ops = calls
C11_Witness ==
    /\ PresetAnswered /\ resp.status = 200
    /\ req.preset = "clinical" /\ req.notch_freq = 600
    /\ resp.cleaned.nsamples = PresetSamples

\* a direct call of compute_band_power has returned
BandPowerDone == pc = "done" /\ req.op = "bandpower"
\* the call that ended computed per-band masks over an FFT grid
MasksDone == pc = "done" /\ req.op \in {"bandpower", "entropy"}
\* the bins of the grid whose frequency lies in [1, 45] Hz
C12_Bins ==
    {k \in 0..(ret.out.n_fft - 1) :
        /\ 1 * ret.out.n_fft <= FreqNum(k, ret.out.n_fft, req.fs)
        /\ FreqNum(k, ret.out.n_fft, req.fs) <= 45 * ret.out.n_fft}
\* the bands whose mask selects bin k
C12_BandsOf(k) == {b \in BandNames : k \in ret.out.mask[b]}

(* C12: the named bands partition the spectrum: every frequency bin between  *)
(* 1 and 45 Hz is counted in exactly one of delta, theta, alpha, beta,       *)
(* gamma, in compute_band_power and in the per-band part of                  *)
(* compute_spectral_entropy.                                                 *)
C12_ExactlyOneBand ==
    MasksDone => \A k \in C12_Bins : Cardinality(C12_BandsOf(k)) = 1
(* C13: for every non-empty input and positive integer fs,                   *)
(* compute_band_power returns one scalar per band and none of them is NaN    *)
(* or infinite: every band's mask selects at least one FFT bin.              *)
C13_AllBandsFinite ==
    BandPowerDone =>
        /\ DOMAIN ret.out.powers = BandNames
        /\ \A b \in BandNames : ret.out.mask[b] # {} /\ ~IsNaN(ret.out.powers[b])

\* compute_psd has returned after downsampling
PsdDownsampled == pc = "done" /\ req.op = "psd" /\ ret.out.len > PsdMaxPoints
\* the differences between consecutive kept indices
C14_Strides == {ret.out.idx[i + 1] - ret.out.idx[i] : i \in 1..(Len(ret.out.idx) - 1)}

(* C14: when the PSD restricted to [0, max_freq] has more than max_points    *)
(* bins, compute_psd keeps bins at a uniform index stride: the difference    *)
(* between consecutive kept indices is the same throughout.                  *)
C14_UniformStride ==
    PsdDownsampled => Cardinality(C14_Strides) = 1
(* C14 amended: when the restricted PSD has len > max_points bins,           *)
(* compute_psd keeps max_points bins, at the indices                         *)
(* int(i * len / max_points), i = 0 .. max_points - 1: they start at bin 0   *)
(* and increase strictly, consecutive indices differ by                      *)
(* floor(len / max_points) or by one more, and both differences occur (the   *)
(* stride is not uniform) whenever len mod max_points > 1.                   *)
C14_NearUniformStride ==
    PsdDownsampled =>
        LET floor == ret.out.len \div PsdMaxPoints IN
        /\ Len(ret.out.idx) = PsdMaxPoints
        /\ ret.out.idx[1] = 0
        /\ ret.out.idx[PsdMaxPoints] < ret.out.len
        /\ C14_Strides \subseteq {floor, floor + 1}
        /\ floor >= 1
        /\ ret.out.len % PsdMaxPoints > 1 => C14_Strides = {floor, floor + 1}
C14_Witness ==
    /\ PsdDownsampled /\ req.fs = 100 /\ ret.out.len = 116
    /\ ret.out.idx[3] = 2 /\ ret.out.idx[4] = 4

\* POST /time-freq-spectrogram has answered a payload fit for the transform:
\* rank 1 or 2, non-empty, with segments longer than the overlap, bins in [2, 80] Hz
SpectrogramAnswered ==
    /\ pc = "done" /\ req.op = "spectrogram"
    /\ req.rank \in {1, 2} /\ req.nsamples >= 260 /\ req.fs >= 16

(* C15: POST /time-freq-spectrogram, given a non-empty 1-D or 2-D signal     *)
(* long enough for the transform, answers success with a time axis, a        *)
(* frequency axis and a dB-change matrix.                                    *)
C15_SpectrogramSucceeds ==
    SpectrogramAnswered =>
        /\ resp.status = 200
        /\ {"times_ms", "frequencies_hz", "db_matrix"} \subseteq DOMAIN resp

\* a direct call of compute_spectral_entropy has ended
EntropyDone == pc = "done" /\ req.op = "entropy"
\* v is a number in [0, 1]
InUnit(v) == ~IsNaN(v) /\ 0 <= v[1] /\ v[1] <= v[2]

(* C16: compute_spectral_entropy raises no exception and every value it      *)
(* returns (one per channel, overall, one per band) lies in [0, 1], for      *)
(* every non-empty input: an all-zero signal, a single sample and a band     *)
(* without any FFT bin included.                                             *)
C16_EntropyInUnit ==
    EntropyDone =>
        /\ ~ret.raised
        /\ Len(ret.out.per_channel) = req.nchan
        /\ \A ch \in 1..req.nchan : InUnit(ret.out.per_channel[ch])
        /\ InUnit(ret.out.overall)
        /\ DOMAIN ret.out.per_band = BandNames
        /\ \A b \in BandNames : InUnit(ret.out.per_band[b])
C16_Witness ==
    /\ EntropyDone /\ req.nsamples = 1 /\ req.kinds = <<"zero", "noise">>
    /\ ret.out.mask["delta"] = {}
    /\ ret.out.per_band["delta"] = <<0, 1>>
    /\ ret.out.overall = <<0, 4>>

\* compute_eeg_metrics has returned for a channel of more than one sample
MetricsDone == pc = "done" /\ req.op = "metrics" /\ ~ret.raised /\ req.nsamples > 1
\* the zero-crossing rate reported for the channel
C17_Zcr == ret.out.zero_crossing_rate_per_channel[1]
\* the consecutive pairs of the channel, by what happens to the sign
C17_Pairs == 1..(req.nsamples - 1)
C17_Changes == {i \in C17_Pairs : Sign(req.x[i]) # Sign(req.x[i + 1])}
C17_Crossings == {i \in C17_Changes : req.x[i] # 0 /\ req.x[i + 1] # 0}

(* C17: for a channel of n > 1 samples the zero-crossing rate is the number  *)
(* of sign changes between consecutive samples divided by 2 * (n - 1).       *)
C17_ChangesOverTwoN ==
    MetricsDone =>
        C17_Zcr[1] * 2 * (req.nsamples - 1) = Cardinality(C17_Changes) * C17_Zcr[2]
(* C17 amended: for a channel of n > 1 samples the zero-crossing rate is     *)
(* the sum of |sign(x[i+1]) - sign(x[i])| over consecutive samples divided   *)
(* by 2 * (n - 1): a change between a positive and a negative sample counts  *)
(* 2 and a step onto or off an exact zero counts 1, so a channel without     *)
(* zero samples has the rate (number of sign changes) / (n - 1).             *)
C17_SignDiffOverTwoN ==
    MetricsDone =>
        /\ C17_Zcr[2] = 2 * (req.nsamples - 1)
        /\ C17_Zcr[1] = 2 * Cardinality(C17_Crossings)
                            + Cardinality(C17_Changes \ C17_Crossings)
        /\ (\A i \in 1..req.nsamples : req.x[i] # 0) =>
              C17_Zcr[1] * (req.nsamples - 1) = Cardinality(C17_Changes) * C17_Zcr[2]
C17_Witness ==
    /\ MetricsDone /\ req.x = <<-2, 3, 0, 0>>
    /\ C17_Zcr = <<3, 6>>

\* POST /ai-insights has accepted a payload and computed its insights
InsightsAnswered == pc = "done" /\ req.op = "insights" /\ resp.status # 400

(* C18: for every input POST /ai-insights accepts, cognitive_load,           *)
(* mental_fatigue, stress_probability and attention_index are each a number  *)
(* in [0, 1], whatever the band powers: zero total power and a band without  *)
(* any FFT bin included.                                                     *)
C18_IndicesInUnit ==
    InsightsAnswered =>
        /\ InUnit(ret.out.cognitive_load)
        /\ InUnit(ret.out.mental_fatigue)
        /\ InUnit(ret.out.stress_probability)
        /\ InUnit(ret.out.attention_index)

\* POST /compare-multi is past its validation
CompareMultiRunning ==
    req.op = "compare_multi" /\ (pc = "subject" \/ (pc = "done" /\ resp.status # 400))
\* the subjects the loop has visited so far, in order
C19_Visited == SubSeq(req.subjects, 1, Len(req.subjects) - Len(todo))
C19_Kept(s) == s \notin lost
\* the subjects of a table's rows, in order
C19_Subjects(table) == [i \in 1..Len(table) |-> table[i].subject]

(* C19: POST /compare-multi handles the requested subjects one after         *)
(* another; a subject whose loading or computation fails is left out of      *)
(* both tables and does not stop the remaining subjects; the request         *)
(* succeeds if and only if at least one subject was processed, and fails     *)
(* with a server error when none was.                                        *)
C19_FailedSubjectsSkipped ==
    /\ CompareMultiRunning =>
          /\ C19_Subjects(table_a) = SelectSeq(C19_Visited, C19_Kept)
          /\ C19_Subjects(table_b) = SelectSeq(C19_Visited, C19_Kept)
    /\ (CompareMultiRunning /\ pc = "done") =>
          /\ todo = <<>>
          /\ resp.status = 200 <=> (\E i \in 1..Len(req.subjects) : C19_Kept(req.subjects[i]))
          /\ resp.status # 200 => resp.status = 500
          /\ resp.status = 200 => (resp.tableA = table_a /\ resp.tableB = table_b)
    /\ (req.op = "compare_multi" /\ pc = "done") => (resp.status = 200 <=> table_a # <<>>)
C19_Witness ==
    /\ CompareMultiRunning /\ pc = "done" /\ resp.status = 200
    /\ lost = {1, 3}
    /\ C19_Subjects(resp.tableA) = <<2>> /\ C19_Subjects(resp.tableB) = <<2>>

\* a request has been answered
Answered == pc = "done" /\ "status" \in DOMAIN resp /\ resp.status # 0
\* the request carries one of the client's input errors: an upload with an
\* unsupported extension, an array of rank other than 1 or 2, an empty tmp_path
ClientInputError ==
    \/ req.op = "upload" /\ Ext(req.filename) \notin {".edf", ".csv", ".mat"}
    \/ req.op \in {"clean", "ica", "spectrogram", "insights"} /\ req.rank \notin {1, 2}
    \/ req.op \in {"parse", "clean"} /\ "tmp_path" \in DOMAIN req /\ req.tmp_path = ""

(* C20: every client-input error (unsupported upload extension, array rank   *)
(* other than 1 or 2, missing required field such as an empty tmp_path) is   *)
(* answered with a 4xx status on every endpoint that can receive it, POST    *)
(* /clean with an empty tmp_path included, and never with a 5xx status.      *)
C20_ClientErrorsAre4xx ==
    (Answered /\ req.op # "filter" /\ ClientInputError) =>
        (400 <= resp.status /\ resp.status <= 499)

(* C21: a "Filtering skipped" warning is in a POST /clean response only if   *)
(* at least one filter stage requested in that call was in fact skipped for  *)
(* shortness: it is never emitted while every requested filter was applied   *)
(* or while no filter was requested.                                         *)
C21_WarningOnlyIfSkipped ==
    (CleanAnswered /\ resp.status = 200 /\ resp.warnings # <<>>) => skipped # {}

\* a direct call of compute_time_freq_spectrogram has ended
SpectrogramCalled == pc = "done" /\ req.op = "spectrogram_call"

(* C22: for every signal length compute_time_freq_spectrogram calls the      *)
(* spectrogram transform with an overlap strictly smaller than the           *)
(* effective segment length min(nperseg, floor(length / 4) or 64), so a      *)
(* non-empty signal of any length does not make the transform reject its     *)
(* arguments.                                                                *)
C22_OverlapBelowSegment ==
    SpectrogramCalled =>
        /\ SpectrogramArgs(req.nsamples).noverlap < SpectrogramArgs(req.nsamples).nperseg
        /\ ~ret.raised

\* _raw_to_eeg_response has returned
RawToEegResponseDone == pc = "done" /\ req.op = "raw_to_eeg_response"

(* C23: when _raw_to_eeg_response is given max_samples, the returned data    *)
(* never has more than max_samples samples per channel, for every recording  *)
(* length.                                                                   *)
C23_AtMostMaxSamples ==
    (RawToEegResponseDone /\ req.max_samples # None /\ req.max_samples # 0) =>
        /\ ret.out.data.cols <= req.max_samples
        /\ ret.out.data_shape[2] <= req.max_samples

(* C24: in every 200 response of POST /clean, data_shape equals the actual   *)
(* shape of cleaned_data and channel_names has one entry per row of          *)
(* cleaned_data, whatever channels and channel_names values the payload      *)
(* carried.                                                                  *)
C24_ShapeMatchesCleaned ==
    (CleanAnswered /\ resp.status = 200) =>
        /\ resp.data_shape = <<resp.cleaned.nchan, resp.cleaned.nsamples>>
        /\ resp.channel_names = resp.cleaned.nchan

\* POST /compare or POST /compare-multi has answered 200
CompareAnswered ==
    pc = "done" /\ req.op \in {"compare", "compare_multi"} /\ resp.status = 200
\* the proxy accuracy of every row of a table lies in [45, 92]
C25_Clipped(table) ==
    \A i \in 1..Len(table) :
        ~Less(table[i].accuracy, <<45, 1>>) /\ ~Less(<<92, 1>>, table[i].accuracy)

(* C25: in POST /compare and POST /compare-multi the kappa and rocAuc        *)
(* statistics are never flagged significant: proxy accuracy is clipped to    *)
(* [45, 92], so |delta| for kappa and rocAuc is always below 1 and their     *)
(* pValue is always 0.15; only the accuracy statistic can get pValue 0.05.   *)
C25_OnlyAccuracySignificant ==
    CompareAnswered =>
        /\ C25_Clipped(resp.tableA) /\ C25_Clipped(resp.tableB)
        /\ \A k \in {"kappa", "rocAuc"} :
              /\ Abs(resp.stats[k].delta[1]) < resp.stats[k].delta[2]
              /\ resp.stats[k].pValue = <<15, 100>>
              /\ ~resp.stats[k].significant
        /\ resp.stats["accuracy"].significant <=> resp.stats["accuracy"].pValue = <<5, 100>>
C25_Witness ==
    /\ CompareAnswered /\ req.op = "compare_multi" /\ Len(resp.tableA) > 1
    /\ resp.stats["accuracy"].pValue = <<5, 100>>
    /\ resp.stats["accuracy"].significant
    /\ resp.stats["kappa"].delta[1] # 0
    /\ resp.stats["kappa"].pValue = <<15, 100>>

(* C26: over any sequence of requests, POST /parse (and POST /clean with     *)
(* tmp_path) reads a file only if its path was returned by an earlier        *)
(* POST /upload: a path that no upload has produced is rejected without      *)
(* being opened.                                                             *)
C26_ReadsOnlyUploads == opened \subseteq uploaded

====
